---------------------------- MODULE Spec2Model ----------------------------
(***************************************************************************)
(* Financial document Q&A assistant: file validation (file_handler.py),    *)
(* document extraction (document_processor.py), the two answering          *)
(* strategies (ai_qa.py, simple_qa.py) and the Streamlit session that      *)
(* drives them (app.py).                                                   *)
(*                                                                         *)
(* Python strings are TLA+ strings, handled character by character with    *)
(* Len, SubSeq and \o.  Only ASCII text is modelled; the emoji that the    *)
(* program puts in front of its messages are written as the ASCII tags     *)
(* CROSS_MARK, MONEY_BAG, ... defined where they are used.                 *)
(***************************************************************************)
EXTENDS Integers, Sequences, FiniteSets, TLC

VARIABLES
    processed_data,      \* st.session_state.processed_data
    document_processor,  \* st.session_state.document_processor
    conversation_history,\* st.session_state.ai_qa.conversation_history
    chat_history,        \* st.session_state.chat_history
    sample_question,     \* st.session_state.sample_question
    temp_files,          \* the temporary directories that still hold a file
    PDF_AVAILABLE,       \* document_processor.PDF_AVAILABLE, set at import
    last_run,            \* what the latest script run was given and saw
    unit_args,           \* inputs of a direct call of one function
    unit_ret             \* what that call returned

vars == << processed_data, document_processor, conversation_history,
           chat_history, sample_question, temp_files, PDF_AVAILABLE,
           last_run, unit_args, unit_ret >>

session_vars == << processed_data, document_processor, conversation_history,
                   chat_history, sample_question, temp_files, PDF_AVAILABLE,
                   last_run >>

\* Python's None, as a record so that it compares with the dicts it stands in for.
NONE == [none |-> TRUE]

-----------------------------------------------------------------------------
(* Strings *)

Char(s, i) == SubSeq(s, i, i)

UPPERCASE == "ABCDEFGHIJKLMNOPQRSTUVWXYZ"
LOWERCASE == "abcdefghijklmnopqrstuvwxyz"
DIGITS == "0123456789"

\* the characters of the string cls
CharsOf(cls) == { Char(cls, i) : i \in 1..Len(cls) }

UppercaseLetters == CharsOf(UPPERCASE)
Letters == CharsOf(UPPERCASE) \cup CharsOf(LOWERCASE)
Digits == CharsOf(DIGITS)

\* \s of the re module, on the ASCII characters the model writes
Spaces == { " ", "\n", "\t" }
IsSpace(c) == c \in Spaces

ToLower ==
    [c \in UppercaseLetters |->
        Char(LOWERCASE, CHOOSE i \in 1..Len(UPPERCASE) : Char(UPPERCASE, i) = c)]

lower_char(c) == IF c \in UppercaseLetters THEN ToLower[c] ELSE c

\* str.lower(): every character lowered, the string taken by halves
RECURSIVE lower(_)
lower(s) ==
    IF Len(s) = 0 THEN ""
    ELSE IF Len(s) = 1 THEN lower_char(s)
    ELSE LET half == Len(s) \div 2
         IN  lower(SubSeq(s, 1, half)) \o lower(SubSeq(s, half + 1, Len(s)))

\* sub in s
Contains(sub, s) ==
    \E i \in 1..(Len(s) - Len(sub) + 1) : SubSeq(s, i, i + Len(sub) - 1) = sub

\* s[i:] starts with pre (i is 1-based)
StartsAt(pre, s, i) ==
    /\ i + Len(pre) - 1 <= Len(s)
    /\ SubSeq(s, i, i + Len(pre) - 1) = pre

\* the positions of the occurrences of sub in s
Occurrences(sub, s) == { i \in 1..Len(s) : StartsAt(sub, s, i) }

Min(S) == CHOOSE x \in S : \A y \in S : x <= y
Max(S) == CHOOSE x \in S : \A y \in S : x >= y

\* the concatenation of a sequence of strings, sep between them: sep.join(parts)
RECURSIVE join(_, _)
join(sep, parts) ==
    IF Len(parts) = 0 THEN ""
    ELSE IF Len(parts) = 1 THEN parts[1]
    ELSE parts[1] \o sep \o join(sep, Tail(parts))

\* all sequences over S of length 1..n
SeqsUpTo(S, n) == UNION { [1..k -> S] : k \in 1..n }

-----------------------------------------------------------------------------
(* utils/file_handler.py *)

PDF_FORMATS == << "pdf" >>
EXCEL_FORMATS == << "xlsx", "xls", "xlsm" >>

\* FileHandler.SUPPORTED_FORMATS, in the dict's order
SUPPORTED_FORMATS ==
    << [file_type |-> "pdf", extensions |-> PDF_FORMATS],
       [file_type |-> "excel", extensions |-> EXCEL_FORMATS] >>

MAX_FILE_SIZE == 50 * 1024 * 1024

InSeq(x, seq) == \E i \in 1..Len(seq) : seq[i] = x

\* Path(name).suffix for a name without a path separator: from the last dot
\* on, unless that dot is the first or the last character of the name
suffix(name) ==
    LET dots == Occurrences(".", name) IN
    IF dots = {} THEN ""
    ELSE LET i == Max(dots) IN
         IF 1 < i /\ i < Len(name) THEN SubSeq(name, i, Len(name)) ELSE ""

\* str.lstrip('.')
RECURSIVE lstrip_dots(_)
lstrip_dots(s) ==
    IF Len(s) > 0 /\ Char(s, 1) = "." THEN lstrip_dots(SubSeq(s, 2, Len(s))) ELSE s

file_extension(name) == lstrip_dots(lower(suffix(name)))

\* the list built by the loop of validate_file
supported_extensions ==
    SUPPORTED_FORMATS[1].extensions \o SUPPORTED_FORMATS[2].extensions

TOO_LARGE == "File too large. Max size: 50MB"
UNSUPPORTED_FORMAT ==
    "Unsupported format. Supported: " \o join(", ", supported_extensions)

\* a mutant of _get_file_type: the first format's type whatever the extension
get_file_type_first(extension) == SUPPORTED_FORMATS[1].file_type

_get_file_type(extension) ==
    IF \E k \in 1..Len(SUPPORTED_FORMATS) :
           InSeq(extension, SUPPORTED_FORMATS[k].extensions)
    THEN SUPPORTED_FORMATS[
             Min({ k \in 1..Len(SUPPORTED_FORMATS) :
                       InSeq(extension, SUPPORTED_FORMATS[k].extensions) })
         ].file_type
    ELSE "unknown"

\* a mutant of validate_file: the extension check comes before the size check
validate_file_ext_first(uploaded_file) ==
    IF uploaded_file = NONE
    THEN [valid |-> FALSE, error |-> "No file uploaded"]
    ELSE IF ~InSeq(file_extension(uploaded_file.name), supported_extensions)
    THEN [valid |-> FALSE, error |-> UNSUPPORTED_FORMAT]
    ELSE IF uploaded_file.size > MAX_FILE_SIZE
    THEN [valid |-> FALSE, error |-> TOO_LARGE]
    ELSE [valid |-> TRUE,
          file_type |-> _get_file_type(file_extension(uploaded_file.name)),
          extension |-> file_extension(uploaded_file.name),
          size |-> uploaded_file.size,
          name |-> uploaded_file.name]

\* a mutant of validate_file: the size is not tested
validate_file_size_unchecked(uploaded_file) ==
    IF uploaded_file = NONE
    THEN [valid |-> FALSE, error |-> "No file uploaded"]
    ELSE IF ~InSeq(file_extension(uploaded_file.name), supported_extensions)
    THEN [valid |-> FALSE, error |-> UNSUPPORTED_FORMAT]
    ELSE [valid |-> TRUE,
          file_type |-> _get_file_type(file_extension(uploaded_file.name)),
          extension |-> file_extension(uploaded_file.name),
          size |-> uploaded_file.size,
          name |-> uploaded_file.name]

validate_file(uploaded_file) ==
    IF uploaded_file = NONE
    THEN [valid |-> FALSE, error |-> "No file uploaded"]
    ELSE IF uploaded_file.size > MAX_FILE_SIZE
    THEN [valid |-> FALSE, error |-> TOO_LARGE]
    ELSE IF ~InSeq(file_extension(uploaded_file.name), supported_extensions)
    THEN [valid |-> FALSE, error |-> UNSUPPORTED_FORMAT]
    ELSE [valid |-> TRUE,
          file_type |-> _get_file_type(file_extension(uploaded_file.name)),
          extension |-> file_extension(uploaded_file.name),
          size |-> uploaded_file.size,
          name |-> uploaded_file.name]

-----------------------------------------------------------------------------
(* Regular expressions of document_processor.py and simple_qa.py *)

\* the end (exclusive) of the longest run of characters of the set cls from p
RECURSIVE run_end(_, _, _)
run_end(cls, s, p) ==
    IF p <= Len(s) /\ Char(s, p) \in cls THEN run_end(cls, s, p + 1) ELSE p

\* [:\s] and [\d,]
Separators == { ":" } \cup Spaces
DigitsOrComma == Digits \cup { "," }

DigitAt(s, p) == p <= Len(s) /\ Char(s, p) \in Digits

\* (,\d{3})* from p, greedy
RECURSIVE thousands_end(_, _)
thousands_end(s, p) ==
    IF /\ StartsAt(",", s, p)
       /\ DigitAt(s, p + 1) /\ DigitAt(s, p + 2) /\ DigitAt(s, p + 3)
    THEN thousands_end(s, p + 4)
    ELSE p

\* \d{1,3}(?:,\d{3})*(?:\.\d{2})? from p, where s[p] is a digit: the end
\* (exclusive) of the match.  Every part is greedy and nothing follows the
\* group, so the first choice of each part stands.
number_end(s, p) ==
    LET d == Min({ run_end(Digits, s, p), p + 3 })
        t == thousands_end(s, d)
    IN  IF StartsAt(".", s, t) /\ DigitAt(s, t + 1) /\ DigitAt(s, t + 2)
        THEN t + 3
        ELSE t

\* [\d,]+ from p
digits_commas_end(s, p) == run_end(DigitsOrComma, s, p)

\* the end (exclusive) of the group that starts at p: the grouped number of
\* document_processor.py or the [\d,]+ of simple_qa.py
group_end(grouped, s, p) ==
    IF grouped THEN number_end(s, p) ELSE digits_commas_end(s, p)

\* the class of the first character of either group
group_first(grouped) == IF grouped THEN Digits ELSE DigitsOrComma

\* keyword[:\s]+\$? matched at i: the position where the group must start, or
\* 0 when the keyword or its separator is missing.  The separator, the dollar
\* sign and the group's first character are of disjoint classes, so giving
\* back part of the separator run never makes a match.
group_start(keyword, s, i) ==
    IF ~StartsAt(keyword, s, i) THEN 0
    ELSE LET a == i + Len(keyword)
             b == run_end(Separators, s, a)
         IN  IF b = a THEN 0
             ELSE IF StartsAt("$", s, b) THEN b + 1 ELSE b

\* re.search(keyword + r'[:\s]+\$?(<group>)', s): whether it matches and
\* group(1) of the leftmost match
re_search(keyword, grouped, s) ==
    LET hits == { i \in 1..Len(s) :
                    LET g == group_start(keyword, s, i)
                    IN  g > 0 /\ g <= Len(s) /\ Char(s, g) \in group_first(grouped) }
    IN  IF hits = {} THEN [matched |-> FALSE, group1 |-> ""]
        ELSE LET g == group_start(keyword, s, Min(hits))
             IN  [matched |-> TRUE, group1 |-> SubSeq(s, g, group_end(grouped, s, g) - 1)]

\* the loop with the last pattern that matches in place of the first
RECURSIVE last_match(_, _, _)
last_match(keywords, grouped, s) ==
    IF Len(keywords) = 0 THEN [matched |-> FALSE, group1 |-> ""]
    ELSE LET m == re_search(keywords[Len(keywords)], grouped, s)
         IN  IF m.matched THEN m
             ELSE last_match(SubSeq(keywords, 1, Len(keywords) - 1), grouped, s)

\* for pattern in patterns: match = re.search(pattern, s); if match: ... break
RECURSIVE first_match(_, _, _)
first_match(keywords, grouped, s) ==
    IF Len(keywords) = 0 THEN [matched |-> FALSE, group1 |-> ""]
    ELSE LET m == re_search(keywords[1], grouped, s)
         IN  IF m.matched THEN m
             ELSE first_match(Tail(keywords), grouped, s)

-----------------------------------------------------------------------------
(* Insertion-ordered dicts: sequences of [key, value] *)

dict_has(d, k) == \E i \in 1..Len(d) : d[i].key = k
dict_get(d, k) == d[CHOOSE i \in 1..Len(d) : d[i].key = k].value
\* d[k] = v
dict_set(d, k, v) ==
    IF dict_has(d, k)
    THEN [i \in 1..Len(d) |-> IF d[i].key = k THEN [key |-> k, value |-> v] ELSE d[i]]
    ELSE Append(d, [key |-> k, value |-> v])

-----------------------------------------------------------------------------
(* utils/document_processor.py *)

(* The file at file_path is its content:                                   *)
(*   [kind |-> "workbook", sheets |-> << [sheet_name, df], ... >>]         *)
(*   [kind |-> "pdf", pages |-> << text, ... >>]                           *)
(*   [kind |-> "corrupt"]     (no library can read it)                     *)
(* A DataFrame df is the string df.to_string() gives, the one thing the    *)
(* code reads of it.  A file with a field unreadable |-> i is one whose    *)
(* i-th sheet or page makes the library raise.  A call that raises has the *)
(* outcome [raised |-> str(e)].                                            *)

\* str(e) of the exception a library raises on a file it cannot read
READ_ERROR == "file cannot be read"

\* how many of the n sheets (pd.read_excel) or pages (page.extract_text) of
\* a file are read before the library raises
readable_prefix(content, n) ==
    IF "unreadable" \in DOMAIN content /\ content.unreadable \in 1..n
    THEN content.unreadable - 1
    ELSE n

\* DocumentProcessor.__init__
NewDocumentProcessor ==
    [extracted_data |-> << >>,
     document_text |-> "",
     financial_tables |-> << >>,
     financial_metrics |-> << >>]

financial_keywords ==
    << "revenue", "income", "profit", "loss", "expense", "cost",
       "sales", "earnings", "ebitda", "assets", "liabilities",
       "equity", "cash", "debt", "balance", "statement" >>

\* any(word in text for word in words)
AnyIn(words, text) == \E i \in 1..Len(words) : Contains(words[i], text)

_contains_financial_keywords(df) == AnyIn(financial_keywords, lower(df))

_identify_statement_type(df) ==
    LET df_text == lower(df) IN
    IF AnyIn(<< "balance sheet", "assets", "liabilities" >>, df_text)
    THEN "Balance Sheet"
    ELSE IF AnyIn(<< "income statement", "revenue", "profit", "loss" >>, df_text)
    THEN "Income Statement"
    ELSE IF AnyIn(<< "cash flow", "operating", "investing", "financing" >>, df_text)
    THEN "Cash Flow Statement"
    ELSE "Financial Statement"

\* one turn of the loop of _extract_excel_metrics
excel_metrics_step(metrics, sheet) ==
    LET df_text == lower(sheet.df)
        m1 == IF Contains("revenue", df_text) \/ Contains("sales", df_text)
              THEN dict_set(metrics, "revenue_sheet", sheet.sheet_name)
              ELSE metrics
    IN  IF Contains("profit", df_text) \/ Contains("net income", df_text)
        THEN dict_set(m1, "profit_sheet", sheet.sheet_name)
        ELSE m1

\* a mutant of the loop of _extract_excel_metrics: a key once set is kept
RECURSIVE excel_metrics_keep_first(_, _)
excel_metrics_keep_first(metrics, sheets_data) ==
    IF Len(sheets_data) = 0 THEN metrics
    ELSE LET m == excel_metrics_step(metrics, sheets_data[1])
             kept == [i \in 1..Len(m) |->
                         IF dict_has(metrics, m[i].key)
                         THEN [key |-> m[i].key, value |-> dict_get(metrics, m[i].key)]
                         ELSE m[i]]
         IN  excel_metrics_keep_first(kept, Tail(sheets_data))

\* the loop of _extract_excel_metrics over sheets_data.items()
RECURSIVE excel_metrics_loop(_, _)
excel_metrics_loop(metrics, sheets_data) ==
    IF Len(sheets_data) = 0 THEN metrics
    ELSE excel_metrics_loop(excel_metrics_step(metrics, sheets_data[1]),
                            Tail(sheets_data))

_extract_excel_metrics(sheets_data) == excel_metrics_loop(<< >>, sheets_data)

revenue_patterns == << "revenue", "total revenue", "sales" >>
profit_patterns == << "net income", "profit" >>

\* a mutant of _extract_text_metrics: the loops do not break at the first
\* pattern that matches, so the last one wins
extract_text_metrics_no_break(text) ==
    LET text_lower == lower(text)
        rev == last_match(revenue_patterns, TRUE, text_lower)
        pro == last_match(profit_patterns, TRUE, text_lower)
        m1 == IF rev.matched THEN dict_set(<< >>, "revenue", rev.group1) ELSE << >>
    IN  IF pro.matched THEN dict_set(m1, "profit", pro.group1) ELSE m1

\* a mutant of _extract_text_metrics: the profit patterns are not searched
extract_text_metrics_revenue_only(text) ==
    LET rev == first_match(revenue_patterns, TRUE, lower(text))
    IN  IF rev.matched THEN dict_set(<< >>, "revenue", rev.group1) ELSE << >>

_extract_text_metrics(text) ==
    LET text_lower == lower(text)
        rev == first_match(revenue_patterns, TRUE, text_lower)
        pro == first_match(profit_patterns, TRUE, text_lower)
        m1 == IF rev.matched THEN dict_set(<< >>, "revenue", rev.group1) ELSE << >>
    IN  IF pro.matched THEN dict_set(m1, "profit", pro.group1) ELSE m1

\* the loop of _process_excel over excel_file.sheet_names, on the processor
RECURSIVE excel_sheets_loop(_, _)
excel_sheets_loop(self, sheets) ==
    IF Len(sheets) = 0 THEN self
    ELSE LET sheet == sheets[1]
             tables ==
                 IF _contains_financial_keywords(sheet.df)
                 THEN Append(self.financial_tables,
                             [sheet_name |-> sheet.sheet_name,
                              data |-> sheet.df,
                              type |-> _identify_statement_type(sheet.df)])
                 ELSE self.financial_tables
             text == self.document_text
                        \o "\n\n--- Sheet: " \o sheet.sheet_name \o " ---\n"
                        \o sheet.df
         IN  excel_sheets_loop(
                 [self EXCEPT !.financial_tables = tables, !.document_text = text],
                 Tail(sheets))

\* what the try block of _process_excel raises, NONE if nothing: ExcelFile
\* on a file that is no workbook, read_excel on a sheet it cannot read
excel_raised(content) ==
    IF content.kind # "workbook" THEN [raised |-> READ_ERROR]
    ELSE IF readable_prefix(content, Len(content.sheets)) < Len(content.sheets)
    THEN [raised |-> READ_ERROR]
    ELSE NONE

\* _process_excel: the result and the processor after the call; the sheets
\* read before a raise stay in the processor
_process_excel(self, content) ==
    IF content.kind # "workbook"
    THEN [result |-> [success |-> FALSE,
                      error |-> "Excel processing failed: "
                                    \o excel_raised(content).raised],
          self |-> self]
    ELSE IF excel_raised(content) # NONE
    THEN [result |-> [success |-> FALSE,
                      error |-> "Excel processing failed: "
                                    \o excel_raised(content).raised],
          self |-> excel_sheets_loop(self,
                       SubSeq(content.sheets, 1,
                              readable_prefix(content, Len(content.sheets))))]
    ELSE LET looped == excel_sheets_loop(self, content.sheets)
             after == [looped EXCEPT
                          !.financial_metrics = _extract_excel_metrics(content.sheets)]
         IN  [result |-> [success |-> TRUE,
                          sheets |-> [i \in 1..Len(content.sheets) |->
                                         content.sheets[i].sheet_name],
                          total_sheets |-> Len(content.sheets),
                          financial_tables_found |-> Len(after.financial_tables),
                          data |-> content.sheets,
                          text_for_ai |-> after.document_text],
              self |-> after]

\* the length of the preview _process_pdf cuts from the text
PREVIEW_LENGTH == 500

\* what the try block of _process_pdf raises, NONE if nothing: PdfReader on
\* a file that is no PDF, extract_text on a page it cannot read
pdf_raised(content) ==
    IF content.kind # "pdf" THEN [raised |-> READ_ERROR]
    ELSE IF readable_prefix(content, Len(content.pages)) < Len(content.pages)
    THEN [raised |-> READ_ERROR]
    ELSE NONE

\* _process_pdf: the result and the processor after the call, pdf_available
\* being the module's PDF_AVAILABLE; document_text is assigned after the
\* loop over the pages, so a raise leaves the processor as it was
_process_pdf(self, content, pdf_available) ==
    IF ~pdf_available
    THEN [result |-> [success |-> FALSE,
                      error |-> "PDF processing library not available. Install pypdf."],
          self |-> self]
    ELSE IF pdf_raised(content) # NONE
    THEN [result |-> [success |-> FALSE,
                      error |-> "PDF processing failed: " \o pdf_raised(content).raised],
          self |-> self]
    ELSE LET text == join("\n", content.pages)
             after == [self EXCEPT !.document_text = text,
                                   !.financial_metrics = _extract_text_metrics(text)]
         IN  [result |-> [success |-> TRUE,
                          pages |-> Len(content.pages),
                          text_length |-> Len(text),
                          text_preview |->
                              IF Len(text) > PREVIEW_LENGTH
                              THEN SubSeq(text, 1, PREVIEW_LENGTH) \o "..."
                              ELSE text,
                          full_text |-> text,
                          text_for_ai |-> text],
              self |-> after]

\* a mutant of process_document: the last else is missing and nothing is
\* returned for a file type that is neither excel nor pdf
process_document_no_else(self, content, file_type, pdf_available) ==
    IF file_type = "excel" THEN _process_excel(self, content)
    ELSE IF file_type = "pdf" THEN _process_pdf(self, content, pdf_available)
    ELSE [result |-> NONE, self |-> self]

\* process_document: the result and the processor after the call.  Both
\* callees catch what their own bodies raise and the three branches raise
\* nothing themselves, so the except clause of process_document is never
\* entered.
process_document(self, content, file_type, pdf_available) ==
    IF file_type = "excel" THEN _process_excel(self, content)
    ELSE IF file_type = "pdf" THEN _process_pdf(self, content, pdf_available)
    ELSE [result |-> [success |-> FALSE,
                      error |-> "Unsupported file type: " \o file_type],
          self |-> self]

\* the lines get_context_for_ai writes for the metrics
RECURSIVE metric_lines(_)
metric_lines(metrics) ==
    IF Len(metrics) = 0 THEN ""
    ELSE "- " \o metrics[1].key \o ": " \o metrics[1].value \o "\n"
            \o metric_lines(Tail(metrics))

get_context_for_ai(self) ==
    "Financial Document Content:\n\n" \o self.document_text
        \o (IF Len(self.financial_metrics) > 0
            THEN "\n\nExtracted Financial Metrics:\n" \o metric_lines(self.financial_metrics)
            ELSE "")

-----------------------------------------------------------------------------
(* utils/simple_qa.py *)

\* the emoji in front of SimpleQA's answers
MONEY_BAG == "[money bag]"
BAR_CHART == "[bar chart]"
QUESTION_MARK == "[?]"
DOLLAR_NOTE == "[dollar note]"
MONEY_WINGS == "[money with wings]"
OFFICE == "[office]"
MAGNIFIER == "[magnifier]"

\* SimpleQA.__init__: self.document_text
SimpleQA(document_text) == lower(document_text)

_find_revenue_info(self_text) ==
    LET m == first_match(<< "revenue", "sales" >>, FALSE, self_text)
    IN  IF m.matched THEN MONEY_BAG \o " Found revenue: $" \o m.group1
        ELSE IF Contains("revenue", self_text)
        THEN BAR_CHART \o " Revenue information found in the document. Please check the income statement."
        ELSE QUESTION_MARK \o " No specific revenue information found."

\* a mutant of _find_profit_info: the net income pattern is tried first
find_profit_info_net_first(self_text) ==
    LET m == first_match(<< "net income", "profit" >>, FALSE, self_text)
    IN  IF m.matched THEN DOLLAR_NOTE \o " Found profit: $" \o m.group1
        ELSE QUESTION_MARK \o " No specific profit information found."

_find_profit_info(self_text) ==
    LET m == first_match(<< "profit", "net income" >>, FALSE, self_text)
    IN  IF m.matched THEN DOLLAR_NOTE \o " Found profit: $" \o m.group1
        ELSE QUESTION_MARK \o " No specific profit information found."

_find_expense_info(self_text) ==
    IF Contains("expense", self_text)
    THEN MONEY_WINGS \o " Expense information found in the document."
    ELSE QUESTION_MARK \o " No expense information found."

_find_assets_info(self_text) ==
    IF Contains("assets", self_text)
    THEN OFFICE \o " Assets information found in the document."
    ELSE QUESTION_MARK \o " No assets information found."

\* the end (exclusive) of the run of characters that are not whitespace from p
RECURSIVE word_end(_, _)
word_end(s, p) ==
    IF p <= Len(s) /\ ~IsSpace(Char(s, p)) THEN word_end(s, p + 1) ELSE p

\* str.split(): the maximal runs of characters that are not whitespace
RECURSIVE split(_)
split(s) ==
    LET a == run_end(Spaces, s, 1) IN
    IF a > Len(s) THEN << >>
    ELSE LET b == word_end(s, a)
         IN  << SubSeq(s, a, b - 1) >> \o split(SubSeq(s, b, Len(s)))

\* the shortest word _general_search looks for has this many characters more than
MIN_WORD == 3

\* [w for w in question.split() if len(w) > 3]
RECURSIVE long_words(_)
long_words(words) ==
    IF Len(words) = 0 THEN << >>
    ELSE (IF Len(words[1]) > MIN_WORD THEN << words[1] >> ELSE << >>)
            \o long_words(Tail(words))

\* [w for w in words if w in self.document_text]
RECURSIVE found_words(_, _)
found_words(words, self_text) ==
    IF Len(words) = 0 THEN << >>
    ELSE (IF Contains(words[1], self_text) THEN << words[1] >> ELSE << >>)
            \o found_words(Tail(words), self_text)

_general_search(self_text, question) ==
    LET found == found_words(long_words(split(question)), self_text)
    IN  IF Len(found) > 0 THEN MAGNIFIER \o " Found references to: " \o join(", ", found)
        ELSE QUESTION_MARK \o " No specific information found for your question."

\* SimpleQA(document_text).answer_question(question)
simple_answer_question(self_text, question) ==
    LET q == lower(question) IN
    IF AnyIn(<< "revenue", "sales", "income" >>, q) THEN _find_revenue_info(self_text)
    ELSE IF AnyIn(<< "profit", "net income" >>, q) THEN _find_profit_info(self_text)
    ELSE IF AnyIn(<< "expense", "cost" >>, q) THEN _find_expense_info(self_text)
    ELSE IF AnyIn(<< "assets" >>, q) THEN _find_assets_info(self_text)
    ELSE _general_search(self_text, q)

-----------------------------------------------------------------------------
(* utils/ai_qa.py *)

(* ollama.chat is the environment: a call either raises, [ok |-> FALSE,    *)
(* error |-> str(e)], or returns, [ok |-> TRUE, content |-> the reply's    *)
(* message content].  A call is logged as [content, ok]: what was sent and *)
(* whether it returned.                                                    *)

\* the emoji in front of the wrapper's messages
CROSS_MARK == "[x]"
WARNING_SIGN == "[!]"

CONTINUE_WITH_AI == "CONTINUE_WITH_AI"
REVENUE_OVERRIDE ==
    "The total sales revenue is $52,000 based on 1,000 tyres sold at $52 each."
ERROR_PREFIX == CROSS_MARK \o " Error processing question: "

\* document_context[:2000]
CONTEXT_LIMIT == 2000

_create_financial_prompt(question, document_context) ==
    "Based on this financial document, answer the question directly and concisely.\n\n"
        \o "    DOCUMENT DATA:\n    "
        \o SubSeq(document_context, 1, Min({ CONTEXT_LIMIT, Len(document_context) }))
        \o "\n\n    QUESTION: " \o question
        \o "\n\n    Give a direct answer in one clear sentence. If you find a specific number, include it. If information is missing, say \"Information not available in document.\""
        \o "\n\n    ANSWER:"

_emergency_override(question, document_context) ==
    LET question_lower == lower(question) IN
    IF /\ Contains("revenue", question_lower) \/ Contains("sales", question_lower)
       /\ Contains("joe", lower(document_context))
    THEN REVENUE_OVERRIDE
    ELSE IF Contains("profit", question_lower) /\ Contains("gross", question_lower)
    THEN "The gross profit is $20,800."
    ELSE IF Contains("profit", question_lower) /\ Contains("net", question_lower)
    THEN "The net profit is $5,200."
    ELSE IF Contains("advertising", question_lower)
    THEN "The advertising expense is $500."
    ELSE CONTINUE_WITH_AI

\* re.sub of a pattern of two one-character groups ([A])([B]) by r'\1 \2',
\* A and B sets of characters.  A and B are disjoint, so the matches cannot
\* overlap and every place where an A is followed by a B gets its space.
RECURSIVE space_from(_, _, _, _)
space_from(A, B, s, p) ==
    LET pairs == { i \in p..(Len(s) - 1) : Char(s, i) \in A /\ Char(s, i + 1) \in B }
    IN  IF pairs = {} THEN SubSeq(s, p, Len(s))
        ELSE SubSeq(s, p, Min(pairs)) \o " " \o space_from(A, B, s, Min(pairs) + 1)

space_between(A, B, s) == space_from(A, B, s, 1)

\* str.replace(old, new), old not empty: left to right, without overlap
RECURSIVE replace_from(_, _, _, _)
replace_from(s, old, new, p) ==
    LET found == { i \in p..(Len(s) - Len(old) + 1) : StartsAt(old, s, i) }
    IN  IF found = {} THEN SubSeq(s, p, Len(s))
        ELSE SubSeq(s, p, Min(found) - 1) \o new
                \o replace_from(s, old, new, Min(found) + Len(old))

replace(s, old, new) == replace_from(s, old, new, 1)

\* str.strip()
strip(s) ==
    LET a == run_end(Spaces, s, 1) IN
    IF a > Len(s) THEN ""
    ELSE SubSeq(s, a, Max({ i \in a..Len(s) : ~IsSpace(Char(s, i)) }))

_clean_response(response) ==
    LET r1 == space_between(Digits, Letters, response)
        r2 == space_between(Letters, Digits, r1)
        r3 == replace(replace(replace(r2, "basedon", "based on"),
                              "soldat", "sold at"), "tyresat", "tyres at")
        r4 == IF ~Contains("$", r3) /\ Contains("revenue", lower(r3))
              THEN replace(replace(r3, "52,000", "$52,000"), "52 each", "$52 each")
              ELSE r3
    IN  strip(join(" ", split(r4)))

suspicious_patterns ==
    << "million", "billion", "1,234,567", "999,999",
       "approximately", "estimated", "roughly" >>

_validate_response(answer, document_context) ==
    LET answer_lower == lower(answer) IN
    IF AnyIn(suspicious_patterns, answer_lower)
    THEN WARNING_SIGN \o " VALIDATION WARNING: This response may be inaccurate. Please verify against the source document.\n\nOriginal response: " \o answer
    ELSE IF /\ Contains("52000", document_context) \/ Contains("52,000", document_context)
            /\ Contains("revenue", answer_lower) \/ Contains("sales", answer_lower)
            /\ ~Contains("52,000", answer) /\ ~Contains("52000", answer)
    THEN WARNING_SIGN \o " Expected sales figure of $52,000 based on document content.\n\nAI Response: " \o answer
    ELSE answer

_ensure_clean_response(response, question, document_context) ==
    IF AnyIn(<< "XX", "Instructions:", "Direct answer sentence:", "AI Response:" >>,
             response)
    THEN IF /\ Contains("revenue", lower(question)) \/ Contains("sales", lower(question))
            /\ Contains("52000", document_context) \/ Contains("52,000", document_context)
         THEN "The total sales revenue is $52,000."
         ELSE IF /\ Contains("profit", lower(question)) /\ Contains("gross", lower(question))
                 /\ Contains("20800", document_context) \/ Contains("20,800", document_context)
         THEN "The gross profit is $20,800."
         ELSE "I found financial information in the document but cannot provide a specific answer."
    ELSE response

\* the rest of answer_question's try block and its except clause, once the
\* override has said CONTINUE_WITH_AI: the answer
model_answer(question, document_context, reply) ==
    IF ~reply.ok THEN ERROR_PREFIX \o reply.error
    ELSE _validate_response(
             _ensure_clean_response(_clean_response(strip(reply.content)),
                                    question, document_context),
             document_context)

\* a mutant of answer_question: the model is consulted before the override
answer_question_model_first(history, question, document_context, reply) ==
    LET answer == model_answer(question, document_context, reply) IN
    [answer |-> answer,
     conversation_history |->
         Append(history, [question |-> question, answer |-> answer]),
     calls |-> << [content |-> _create_financial_prompt(question, document_context),
                   ok |-> reply.ok] >>]

\* a mutant of answer_question: the except clause returns the message and
\* records nothing
answer_question_error_unrecorded(history, question, document_context, reply) ==
    LET r == answer_question_model_first(history, question, document_context, reply) IN
    IF reply.ok THEN r ELSE [r EXCEPT !.conversation_history = history]

\* a mutant of answer_question: the override's answer is returned and not
\* recorded
answer_question_override_unrecorded(history, question, document_context, reply) ==
    IF _emergency_override(question, document_context) # CONTINUE_WITH_AI
    THEN [answer |-> _clean_response(_emergency_override(question, document_context)),
          conversation_history |-> history,
          calls |-> << >>]
    ELSE answer_question_model_first(history, question, document_context, reply)

\* answer_question on a wrapper whose conversation_history is history, reply
\* being what ollama.chat does if it is called: the answer returned, the
\* history after the call and the calls made
answer_question(history, question, document_context, reply) ==
    LET override_response == _emergency_override(question, document_context) IN
    IF override_response # CONTINUE_WITH_AI
    THEN LET cleaned_response == _clean_response(override_response) IN
         [answer |-> cleaned_response,
          conversation_history |->
              Append(history, [question |-> question, answer |-> cleaned_response]),
          calls |-> << >>]
    ELSE LET answer == model_answer(question, document_context, reply) IN
         [answer |-> answer,
          conversation_history |->
              Append(history, [question |-> question, answer |-> answer]),
          calls |-> << [content |-> _create_financial_prompt(question, document_context),
                        ok |-> reply.ok] >>]

\* AIQuestionAnswering.__init__: self.conversation_history
NewAIQuestionAnswering == << >>

\* is_model_available, probe being what ollama.chat does: the value returned
\* and the call made
is_model_available(probe) ==
    [available |-> probe.ok, calls |-> << [content |-> "Hello", ok |-> probe.ok] >>]

\* a mutant of clear_history: the list is left as it is
clear_history_kept(history) == history

\* clear_history, on a wrapper whose conversation_history is history
clear_history(history) == << >>

-----------------------------------------------------------------------------
(* Direct calls of one function: the inputs are drawn by the initial state, *)
(* the one action makes the call.                                           *)

\* main(), lines 22-29, on a new session, before any script run is logged
InitSession ==
    /\ processed_data = NONE
    /\ document_processor = NewDocumentProcessor
    /\ conversation_history = NewAIQuestionAnswering
    /\ chat_history = << >>
    /\ sample_question = NONE
    /\ temp_files = { }
    /\ last_run = [kind |-> "start"]

\* the strings made of 1..n of the given parts
Concatenations(parts, n) == { join("", q) : q \in SeqsUpTo(parts, n) }

MaxNameParts == 3
NameParts == { "report", ".", "pdf", "PDF", "xlsx", "Xls", "xlsm", "txt", "x" }
FileNames == Concatenations(NameParts, MaxNameParts)
FileSizes == { 0, MAX_FILE_SIZE - 1, MAX_FILE_SIZE, MAX_FILE_SIZE + 1, 2 * MAX_FILE_SIZE }

InitValidate ==
    /\ InitSession
    /\ PDF_AVAILABLE = TRUE
    /\ unit_args \in [fn : { "validate_file" },
                      uploaded_file : [name : FileNames, size : FileSizes]]
    /\ unit_ret = NONE

CallValidateFile ==
    /\ unit_ret = NONE
    /\ unit_ret' = [value |-> validate_file(unit_args.uploaded_file)]
    /\ UNCHANGED << session_vars, unit_args >>

SpecValidate == InitValidate /\ [][CallValidateFile]_vars

\* name has the extension e, whatever the letter case: its last dot is
\* neither its first nor its last character, and e follows it
HasExtension(name, e) ==
    \E i \in 2..(Len(name) - 1) :
        /\ Char(name, i) = "."
        /\ ~Contains(".", SubSeq(name, i + 1, Len(name)))
        /\ lower(SubSeq(name, i + 1, Len(name))) = e

Validated == unit_ret # NONE /\ unit_args.fn = "validate_file"

\* C1: a file larger than 50 MiB fails validation with the size-exceeded
\* error, whatever its extension.
C1_OversizeRejected ==
    Validated /\ unit_args.uploaded_file.size > 50 * 1024 * 1024
        => /\ ~unit_ret.value.valid
           /\ unit_ret.value.error = "File too large. Max size: 50MB"

\* an oversize file with a supported extension has been validated
C1_Witness ==
    /\ Validated
    /\ unit_args.uploaded_file.size > 50 * 1024 * 1024
    /\ HasExtension(unit_args.uploaded_file.name, "xlsx")

\* C2: a file of at most 50 MiB is valid exactly when its lower-cased last
\* extension is one of pdf, xlsx, xls, xlsm; its file_type is then "pdf" for
\* pdf and "excel" for the three others.
C2_ExtensionClassified ==
    Validated /\ unit_args.uploaded_file.size <= 50 * 1024 * 1024
        => LET name == unit_args.uploaded_file.name
               r == unit_ret.value
           IN  /\ r.valid <=> \E e \in { "pdf", "xlsx", "xls", "xlsm" } :
                                  HasExtension(name, e)
               /\ HasExtension(name, "pdf") => r.file_type = "pdf"
               /\ \A e \in { "xlsx", "xls", "xlsm" } :
                      HasExtension(name, e) => r.file_type = "excel"

\* a file of exactly 50 MiB with the extension Xls has been classified excel
C2_Witness ==
    /\ Validated
    /\ unit_args.uploaded_file.size = 50 * 1024 * 1024
    /\ unit_args.uploaded_file.name = "report.Xls"
    /\ unit_ret.value.valid
    /\ unit_ret.value.file_type = "excel"

-----------------------------------------------------------------------------
(* AIQuestionAnswering().answer_question(question, document_context) *)

MaxQuestionParts == 2
QuestionParts ==
    { "Revenue", "REVENUE", "sales", "profit", "gross ", "net ",
      "advertising", "cash " }
Questions == Concatenations(QuestionParts, MaxQuestionParts)

Contexts ==
    { pre \o who \o post :
        pre \in { "Financial Document Content:\n\n" },
        who \in { "Joe's Motorbike Tyres", "JOE", "Acme Ltd" },
        post \in { "", "\nSales: 52,000" } }

\* what ollama.chat may do
Replies ==
    { [ok |-> FALSE, error |-> "connection refused"],
      [ok |-> TRUE, content |-> "The revenue is52,000basedon sales"],
      [ok |-> TRUE, content |-> " Revenue was approximately 1 million \n"],
      [ok |-> TRUE, content |-> "Sales were 40,000"] }

InitAnswer ==
    /\ InitSession
    /\ PDF_AVAILABLE = TRUE
    /\ unit_args \in [fn : { "answer_question" },
                      question : Questions,
                      document_context : Contexts,
                      reply : Replies]
    /\ unit_ret = NONE

CallAnswerQuestion ==
    /\ unit_ret = NONE
    /\ unit_ret' = [value |-> answer_question(NewAIQuestionAnswering,
                                              unit_args.question,
                                              unit_args.document_context,
                                              unit_args.reply)]
    /\ UNCHANGED << session_vars, unit_args >>

SpecAnswer == InitAnswer /\ [][CallAnswerQuestion]_vars

Answered == unit_ret # NONE /\ unit_args.fn = "answer_question"

\* C3: when the question contains "revenue" and the context contains "joe",
\* in any letter case, answer_question returns the override answer as it is
\* written, without a call of the model, whatever the model would have done.
C3_RevenueOverride ==
    ( /\ Answered
      /\ Contains("revenue", lower(unit_args.question))
      /\ Contains("joe", lower(unit_args.document_context)) )
        => /\ unit_ret.value.answer =
                  "The total sales revenue is $52,000 based on 1,000 tyres sold at $52 each."
           /\ unit_ret.value.calls = << >>

\* the override has answered a question asked in capitals, about a context
\* naming Joe in capitals, where the model would have failed
C3_Witness ==
    /\ Answered
    /\ unit_args.question = "REVENUEcash "
    /\ Contains("JOE", unit_args.document_context)
    /\ ~unit_args.reply.ok
    /\ unit_ret.value.calls = << >>

-----------------------------------------------------------------------------
(* SimpleQA(document_text).answer_question(question) *)

MaxPages == 2

SimpleQuestionParts ==
    { "revenue", "Sales", "income", "profit", "net ", "expense", "cost",
      "assets", "cash " }
SimpleQuestions == Concatenations(SimpleQuestionParts, MaxQuestionParts)

SimpleTextParts ==
    { "profit: $10,000", "Gross Profit: 3,000", "Net Income: 7", "Profit and loss" }
SimpleTexts == { join("\n", q) : q \in SeqsUpTo(SimpleTextParts, MaxPages) }

InitSimple ==
    /\ InitSession
    /\ PDF_AVAILABLE = TRUE
    /\ unit_args \in [fn : { "SimpleQA.answer_question" },
                      question : SimpleQuestions,
                      document_text : SimpleTexts]
    /\ unit_ret = NONE

CallSimpleAnswer ==
    /\ unit_ret = NONE
    /\ unit_ret' = [value |-> simple_answer_question(SimpleQA(unit_args.document_text),
                                                     unit_args.question)]
    /\ UNCHANGED << session_vars, unit_args >>

SpecSimple == InitSimple /\ [][CallSimpleAnswer]_vars

SimpleAnswered == unit_ret # NONE /\ unit_args.fn = "SimpleQA.answer_question"

\* at i, text has keyword, then one or more colons or whitespace characters,
\* then an optional dollar sign, then a character of the set first
FigureAt(keyword, first, text, i) ==
    /\ StartsAt(keyword, text, i)
    /\ \E j \in (i + Len(keyword) + 1)..Len(text) :
          /\ \A k \in (i + Len(keyword))..(j - 1) : Char(text, k) \in { ":", " ", "\n", "\t" }
          /\ \/ Char(text, j) \in first
             \/ Char(text, j) = "$" /\ j < Len(text) /\ Char(text, j + 1) \in first

\* C4 as stated: a question containing "profit", about a text containing
\* "profit: $10,000", gets an answer containing "10,000".
C4_Original ==
    ( /\ SimpleAnswered
      /\ Contains("profit", unit_args.question)
      /\ Contains("profit: $10,000", unit_args.document_text) )
        => Contains("10,000", unit_ret.value)

\* C4, amended: a question containing "profit" and none of "revenue", "sales",
\* "income" (any letter case), about a text containing "profit: $10,000" with
\* no earlier profit figure, gets the profit answer with "10,000" in it.
C4_ProfitFigure ==
    ( /\ SimpleAnswered
      /\ Contains("profit", unit_args.question)
      /\ \A w \in { "revenue", "sales", "income" } :
             ~Contains(w, lower(unit_args.question))
      /\ \E i \in 1..Len(unit_args.document_text) :
             /\ StartsAt("profit: $10,000", unit_args.document_text, i)
             /\ \A h \in 1..(i - 1) :
                    ~FigureAt("profit", Digits \cup { "," }, lower(unit_args.document_text), h) )
        => /\ Contains("10,000", unit_ret.value)
           /\ StartsAt(DOLLAR_NOTE \o " Found profit: $", unit_ret.value, 1)

\* the profit answer was given for a text where a net income figure and a
\* "profit" without a figure come before "profit: $10,000"
C4_Witness ==
    /\ SimpleAnswered
    /\ unit_args.question = "profitcost"
    /\ unit_args.document_text \in { "Net Income: 7\nprofit: $10,000",
                                     "Profit and loss\nprofit: $10,000" }
    /\ Contains("10,000", unit_ret.value)

\* the keyword lists of answer_question, in the order of its branches
Categories ==
    << << "revenue", "sales", "income" >>, << "profit", "net income" >>,
       << "expense", "cost" >>, << "assets" >> >>

\* what the handler of the category gives for the text
Handler(category, self_text) ==
    CASE category = 1 -> _find_revenue_info(self_text)
      [] category = 2 -> _find_profit_info(self_text)
      [] category = 3 -> _find_expense_info(self_text)
      [] category = 4 -> _find_assets_info(self_text)

\* the categories with a keyword in the question q
Selected(q) == { c \in DOMAIN Categories : AnyIn(Categories[c], q) }

\* C14: the answer is the one of the handler of the first category, in the
\* order revenue, profit, expense, assets, with a keyword in the lower-cased
\* question, and the one of the general search when there is none; and for
\* each keyword of each category, "net income" included, a question that
\* contains it and, beside it, no keyword of another category gets the
\* answer of the keyword's own category.
C14_Dispatch ==
    SimpleAnswered =>
        LET q == lower(unit_args.question)
            self_text == SimpleQA(unit_args.document_text) IN
        /\ unit_ret.value = IF Selected(q) = {} THEN _general_search(self_text, q)
                            ELSE Handler(Min(Selected(q)), self_text)
        /\ \A c \in DOMAIN Categories : \A i \in DOMAIN Categories[c] :
               ( /\ Contains(Categories[c][i], q)
                 /\ Selected(replace(q, Categories[c][i], " ")) \subseteq { c } )
                   => unit_ret.value = Handler(c, self_text)

-----------------------------------------------------------------------------
(* DocumentProcessor().process_document(file_path, file_type) *)

MaxSheets == 2

SheetNames == { "Summary", "P&L", "Notes" }
SheetTexts ==
    { "     Item  Amount\n0  revenue   52000",
      "           Item  Amount\n0  Total Revenue       9\n1     Net Income       5",
      "    Item  Amount\n0  Sales     100",
      "           Item  Amount\n0  Total Assets       7" }

Injective(q) == \A i, j \in DOMAIN q : q[i].sheet_name = q[j].sheet_name => i = j

Workbooks ==
    { [kind |-> "workbook", sheets |-> q] :
        q \in { w \in SeqsUpTo([sheet_name : SheetNames, df : SheetTexts], MaxSheets) :
                  Injective(w) } }

PageTexts ==
    { "Revenue: $52,000", "Revenue: $52,000,000", "Revenue: $52,000.50",
      "revenue: 1,234", "Total Revenue", "Sales: 7", "Net Income: $88",
      "Joe's Motorbike Tyres" }

Pdfs == { [kind |-> "pdf", pages |-> q] : q \in SeqsUpTo(PageTexts, MaxPages) }

Contents == Workbooks \cup Pdfs \cup { [kind |-> "corrupt"] }

InitExtract ==
    /\ InitSession
    /\ PDF_AVAILABLE \in BOOLEAN
    /\ unit_args \in [fn : { "process_document" },
                      content : Contents,
                      file_type : { "excel", "pdf", "unknown" }]
    /\ unit_ret = NONE

CallProcessDocument ==
    /\ unit_ret = NONE
    /\ unit_ret' = [value |-> process_document(NewDocumentProcessor,
                                               unit_args.content,
                                               unit_args.file_type,
                                               PDF_AVAILABLE)]
    /\ UNCHANGED << session_vars, unit_args >>

SpecExtract == InitExtract /\ [][CallProcessDocument]_vars

Extracted(kind) ==
    /\ unit_ret # NONE
    /\ unit_args.fn = "process_document"
    /\ unit_args.content.kind = kind
    /\ unit_ret.value.result.success

\* the metrics the processor holds after the call
Metrics == unit_ret.value.self.financial_metrics

MentionsRevenue(df) == Contains("revenue", lower(df)) \/ Contains("sales", lower(df))

\* C5 as stated: revenue_sheet is every sheet that contains "revenue".
C5_Original ==
    Extracted("workbook")
        => \A i \in 1..Len(unit_args.content.sheets) :
               Contains("revenue", unit_args.content.sheets[i].df)
                   => /\ dict_has(Metrics, "revenue_sheet")
                      /\ dict_get(Metrics, "revenue_sheet") =
                             unit_args.content.sheets[i].sheet_name

\* C5, amended: revenue_sheet is the sheet that contains "revenue" when no
\* later sheet of the workbook contains "revenue" or "sales" (any letter
\* case): it is the last sheet that mentions either.
C5_LastRevenueSheet ==
    Extracted("workbook")
        => LET sheets == unit_args.content.sheets IN
           /\ \A i \in 1..Len(sheets) :
                  ( /\ MentionsRevenue(sheets[i].df)
                    /\ \A j \in (i + 1)..Len(sheets) : ~MentionsRevenue(sheets[j].df) )
                      => /\ dict_has(Metrics, "revenue_sheet")
                         /\ dict_get(Metrics, "revenue_sheet") = sheets[i].sheet_name
           /\ dict_has(Metrics, "revenue_sheet")
                  => \E i \in 1..Len(sheets) : MentionsRevenue(sheets[i].df)

\* a workbook with two sheets containing "revenue" was processed, and
\* revenue_sheet is the second
C5_Witness ==
    /\ Extracted("workbook")
    /\ Len(unit_args.content.sheets) = 2
    /\ \A i \in 1..2 : Contains("revenue", unit_args.content.sheets[i].df)
    /\ dict_get(Metrics, "revenue_sheet") = unit_args.content.sheets[2].sheet_name

\* C6 as stated: a text containing "Revenue: $52,000" yields revenue "52,000".
C6_Original ==
    ( /\ Extracted("pdf")
      /\ Contains("Revenue: $52,000", unit_ret.value.self.document_text) )
        => /\ dict_has(Metrics, "revenue")
           /\ dict_get(Metrics, "revenue") = "52,000"

\* C6, amended: a text containing "Revenue: $52,000" yields revenue "52,000"
\* when no revenue figure comes earlier in the text and the figure does not go
\* on with a comma and three digits or a point and two digits.
C6_FirstRevenueFigure ==
    Extracted("pdf")
        => LET text == unit_ret.value.self.document_text IN
           \A i \in 1..Len(text) :
               ( /\ StartsAt("Revenue: $52,000", text, i)
                 /\ \A h \in 1..(i - 1) : ~FigureAt("revenue", Digits, lower(text), h)
                 /\ ~( /\ StartsAt(",", text, i + 16)
                       /\ \A k \in 17..19 : DigitAt(text, i + k) )
                 /\ ~( /\ StartsAt(".", text, i + 16)
                       /\ \A k \in 17..18 : DigitAt(text, i + k) ) )
                   => /\ dict_has(Metrics, "revenue")
                      /\ dict_get(Metrics, "revenue") = "52,000"

\* a text where "Total Revenue" without a figure and a sales figure come
\* before "Revenue: $52,000" has yielded revenue "52,000"
C6_Witness ==
    /\ Extracted("pdf")
    /\ unit_args.content.pages \in { << "Total Revenue", "Revenue: $52,000" >>,
                                     << "Sales: 7", "Revenue: $52,000" >> }
    /\ dict_get(Metrics, "revenue") = "52,000"

\* the patterns, by their places in the list, that match the text
Matching(patterns, text) ==
    { i \in DOMAIN patterns : re_search(patterns[i], TRUE, lower(text)).matched }

\* when one of the patterns matches the text, the metrics hold under the key
\* the number captured by the first pattern of the list that matches
Scanned(patterns, key, text) ==
    Matching(patterns, text) # {}
        => /\ dict_has(Metrics, key)
           /\ dict_get(Metrics, key) =
                  re_search(patterns[Min(Matching(patterns, text))], TRUE,
                            lower(text)).group1

\* C13 as stated: after a spreadsheet as after a PDF is processed with
\* success, the metrics hold the captured revenue (profit) figure whenever a
\* revenue (profit) pattern matches the extracted text.
C13_Original ==
    (Extracted("workbook") \/ Extracted("pdf"))
        => /\ Scanned(revenue_patterns, "revenue", unit_ret.value.self.document_text)
           /\ Scanned(profit_patterns, "profit", unit_ret.value.self.document_text)

\* C13, amended: only the PDF path runs the numeric scan.  After a PDF is
\* processed with success, the metrics hold the captured revenue (profit)
\* figure whenever a revenue (profit) pattern matches the extracted text;
\* after a spreadsheet is processed with success, the metrics hold neither
\* revenue nor profit, whatever the text matches.
C13_PdfRegexScan ==
    /\ Extracted("pdf")
           => /\ Scanned(revenue_patterns, "revenue",
                         unit_ret.value.self.document_text)
              /\ Scanned(profit_patterns, "profit",
                         unit_ret.value.self.document_text)
    /\ Extracted("workbook")
           => /\ ~dict_has(Metrics, "revenue")
              /\ ~dict_has(Metrics, "profit")

\* a PDF with a net income figure on its first page and a revenue figure on
\* its second has been processed and the metrics hold both figures
C13_Witness ==
    /\ Extracted("pdf")
    /\ unit_args.content.pages = << "Net Income: $88", "Revenue: $52,000" >>
    /\ Matching(revenue_patterns, unit_ret.value.self.document_text) = { 1 }
    /\ Matching(profit_patterns, unit_ret.value.self.document_text) = { 1 }
    /\ dict_get(Metrics, "revenue") = "52,000"
    /\ dict_get(Metrics, "profit") = "88"

-----------------------------------------------------------------------------
(* process_document called on any file: readable ones, files no library    *)
(* opens, and files where one sheet or one page cannot be read, under any  *)
(* file type and with or without the PDF library.                          *)

\* the workbooks and PDFs of which exactly one sheet or page cannot be read
DamagedWorkbooks ==
    UNION { { [kind |-> "workbook", sheets |-> w.sheets, unreadable |-> i] :
                i \in 1..Len(w.sheets) } : w \in Workbooks }

DamagedPdfs ==
    UNION { { [kind |-> "pdf", pages |-> d.pages, unreadable |-> i] :
                i \in 1..Len(d.pages) } : d \in Pdfs }

AnyContents == Contents \cup DamagedWorkbooks \cup DamagedPdfs

FileTypes == { "excel", "pdf", "unknown", "" }

InitProcess ==
    /\ InitSession
    /\ PDF_AVAILABLE \in BOOLEAN
    /\ unit_args \in [fn : { "process_document" },
                      content : AnyContents,
                      file_type : FileTypes]
    /\ unit_ret = NONE

SpecProcess == InitProcess /\ [][CallProcessDocument]_vars

\* the call has returned
Processed == unit_ret # NONE /\ unit_args.fn = "process_document"

\* the file of the call cannot be read by the library of its file type
Unreadable ==
    \/ unit_args.content.kind = "corrupt"
    \/ "unreadable" \in DOMAIN unit_args.content
    \/ unit_args.file_type = "excel" /\ unit_args.content.kind # "workbook"
    \/ unit_args.file_type = "pdf" /\ unit_args.content.kind # "pdf"

\* C11: whatever the file, the file type and the PDF library's presence,
\* process_document returns a result (it raises nothing and returns no
\* None): the result has success = TRUE, or success = FALSE and a non-empty
\* error string; and an unreadable file, an unknown file type and a missing
\* PDF library each give success = FALSE.
C11_NeverRaises ==
    Processed =>
        LET result == unit_ret.value.result IN
        /\ result # NONE
        /\ "raised" \notin DOMAIN result
        /\ "success" \in DOMAIN result
        /\ result.success \in BOOLEAN
        /\ ~result.success => "error" \in DOMAIN result /\ Len(result.error) > 0
        /\ unit_args.file_type \notin { "excel", "pdf" } => ~result.success
        /\ Unreadable /\ unit_args.file_type \in { "excel", "pdf" } => ~result.success
        /\ (unit_args.file_type = "pdf" /\ ~PDF_AVAILABLE) => ~result.success

\* a workbook whose second sheet cannot be read has been processed as a
\* spreadsheet and has given a failure with the library's message
C11_Witness ==
    /\ Processed
    /\ unit_args.file_type = "excel"
    /\ unit_args.content.kind = "workbook"
    /\ "unreadable" \in DOMAIN unit_args.content
    /\ unit_args.content.unreadable = 2
    /\ unit_ret.value.result = [success |-> FALSE,
                                error |-> "Excel processing failed: " \o READ_ERROR]

-----------------------------------------------------------------------------
(* app.py: the session.  One action is one run of the script, main(), for  *)
(* one user interaction: the chosen page's handler with the values its     *)
(* widgets return in that run.  Every run starts with the sidebar's        *)
(* is_model_available(), whose value is only displayed.                    *)

sample_questions ==
    << "What is the total revenue for this period?",
       "How much profit did the company make?",
       "What are the main expenses listed?",
       "Show me information about company assets",
       "What is the cash flow situation?",
       "Compare revenue to expenses" >>

\* the uploads of a session; the uploader's type filter is the browser's, so
\* a file of another type can still reach the handler
MiB == 1024 * 1024
SessionFiles ==
    { [name |-> "joe.pdf", size |-> 2 * MiB,
       content |-> [kind |-> "pdf",
                    pages |-> << "Joe's Motorbike Tyres",
                                 "Sales Revenue: $52,000\nNet Profit: $5,200" >>]],
      [name |-> "Acme.XLSX", size |-> MAX_FILE_SIZE,
       content |-> [kind |-> "workbook",
                    sheets |-> << [sheet_name |-> "Summary",
                                   df |-> "      Item  Amount\n0  Revenue    9000"],
                                  [sheet_name |-> "Assets",
                                   df |-> "           Item  Amount\n0  Total Assets       7"] >>]],
      [name |-> "scan.pdf", size |-> MiB, content |-> [kind |-> "corrupt"]],
      [name |-> "big.pdf", size |-> MAX_FILE_SIZE + 1,
       content |-> [kind |-> "pdf", pages |-> << "Revenue: $1" >>]],
      [name |-> "notes.txt", size |-> MiB, content |-> [kind |-> "corrupt"]] }

\* the questions of a session's Ask Question clicks; the input may be empty
SessionQuestions == { "What is the total revenue for this period?", "" }

\* what ollama.chat may do when is_model_available calls it
Probes == { [ok |-> TRUE], [ok |-> FALSE] }

\* what ollama.chat may do when answer_question calls it
SessionReplies ==
    { [ok |-> FALSE, error |-> "connection refused"],
      [ok |-> TRUE, content |-> "The revenue is9000" ] }

\* the chat log holds at most this many turns
MaxChat == 2

\* the sample questions that get clicked are among the first this many
MaxSamples == 1

Init ==
    /\ InitSession
    /\ PDF_AVAILABLE \in BOOLEAN
    /\ unit_args = NONE
    /\ unit_ret = NONE

\* validate_file of the session's uploads, computed once
Validation == [f \in SessionFiles |-> validate_file(f)]

\* process_document of the session's valid uploads by a new processor,
\* computed once
FreshlyProcessed ==
    [f \in { g \in SessionFiles : Validation[g].valid }, a \in BOOLEAN |->
        process_document(NewDocumentProcessor, f.content, Validation[f].file_type, a)]

\* a mutant of run_processor: the session's processor is used again
run_processor_reused(session_processor, uploaded_file) ==
    process_document(session_processor, uploaded_file.content,
                     Validation[uploaded_file].file_type, PDF_AVAILABLE)

\* handle_document_upload, lines 94-95: processor = DocumentProcessor() and
\* processor.process_document(temp_path, file_type), in a session whose
\* processor is session_processor: the result and the new processor
run_processor(session_processor, uploaded_file) ==
    FreshlyProcessed[uploaded_file, PDF_AVAILABLE]

\* a mutant of store_result: the processor is stored whatever the result
store_result_processor_always(stored_data, stored_processor, done) ==
    [processed_data |-> IF done.result.success THEN done.result ELSE stored_data,
     document_processor |-> done.self]

\* handle_document_upload, lines 97-100: the result and the processor the
\* session holds after processing, done being the result and the processor
\* of this run
store_result(stored_data, stored_processor, done) ==
    IF done.result.success
    THEN [processed_data |-> done.result, document_processor |-> done.self]
    ELSE [processed_data |-> stored_data, document_processor |-> stored_processor]

\* a mutant of chat_page_shown: the page is shown without a document
chat_page_always_shown(stored_data) == TRUE

\* handle_ai_qa_chat, lines 170-172: the handler returns after its warning
\* when processed_data is None, before the input, the buttons and the log
chat_page_shown(stored_data) == stored_data # NONE

\* a mutant of append_chat: the new turn is put in front
append_chat_in_front(history, question, answer, ai_available) ==
    << [question |-> question, answer |-> answer, ai_powered |-> ai_available] >>
        \o history

\* handle_ai_qa_chat, lines 222-226: st.session_state.chat_history.append
append_chat(history, question, answer, ai_available) ==
    Append(history,
           [question |-> question, answer |-> answer, ai_powered |-> ai_available])

\* a run that shows a page and is given no file and no click
ViewPage ==
    /\ last_run' = [kind |-> "view"]
    /\ UNCHANGED << processed_data, document_processor, conversation_history,
                    chat_history, sample_question, temp_files, PDF_AVAILABLE,
                    unit_args, unit_ret >>

\* handle_document_upload with a file in the uploader and no click of
\* Process Document
UploadFile(uploaded_file) ==
    /\ last_run' =
           [kind |-> "upload", uploaded_file |-> uploaded_file.name,
            validation_result |-> Validation[uploaded_file]]
    /\ UNCHANGED << processed_data, document_processor, conversation_history,
                    chat_history, sample_question, temp_files, PDF_AVAILABLE,
                    unit_args, unit_ret >>

\* the failing deletions after which the model still lets a deletion fail
MaxTempFiles == 1

\* tempfile.mkdtemp: a directory that does not exist yet.  The code never
\* removes a directory and keeps no path beyond the run, so the name of a
\* directory whose file is gone stands for any new name.
mkdtemp(files) == Min({ d \in 0..Cardinality(files) : d \notin files })

\* a mutant of save_temp_file: the file is written into the system's one
\* temporary directory, tempfile.gettempdir()
save_temp_file_fixed_dir(files, uploaded_file) ==
    [temp_path |-> [temp_dir |-> 0, name |-> uploaded_file.name],
     file |-> uploaded_file,
     files |-> files \cup { 0 }]

\* FileHandler.save_temp_file: the path returned, the file that is at this
\* path after the write and the directories that hold a file then
save_temp_file(files, uploaded_file) ==
    [temp_path |-> [temp_dir |-> mkdtemp(files), name |-> uploaded_file.name],
     file |-> uploaded_file,
     files |-> files \cup { mkdtemp(files) }]

\* os.unlink(temp_path) in try/except: the directories that hold a file
\* afterwards; unlinked is false when os.unlink raises
os_unlink(files, temp_path, unlinked) ==
    IF unlinked THEN files \ { temp_path.temp_dir } ELSE files

\* handle_document_upload with a valid file and a click of Process Document;
\* unlinked says whether os.unlink removed the temporary file
ProcessDocument(uploaded_file, unlinked) ==
    /\ Validation[uploaded_file].valid
    /\ unlinked \/ Cardinality(temp_files) < MaxTempFiles
    /\ LET saved == save_temp_file(temp_files, uploaded_file)
           done == run_processor(document_processor, saved.file)
           stored == store_result(processed_data, document_processor, done)
       IN  /\ processed_data' = stored.processed_data
           /\ document_processor' = stored.document_processor
           /\ last_run' =
                  [kind |-> "process", uploaded_file |-> uploaded_file.name,
                   success |-> done.result.success, unlinked |-> unlinked,
                   previous |-> processed_data, temp_path |-> saved.temp_path]
           /\ temp_files' = os_unlink(saved.files, saved.temp_path, unlinked)
    /\ UNCHANGED << conversation_history, chat_history, sample_question,
                    PDF_AVAILABLE, unit_args, unit_ret >>

\* handle_ai_qa_chat with a click of Ask Question; user_question is the text
\* of the input, probe what ollama.chat does in the handler's
\* is_model_available() and reply what it does when answer_question calls it
\* (one reply stands for all when the probe fails and the model is not asked)
AskQuestion(user_question, probe, reply) ==
    /\ chat_page_shown(processed_data)
    /\ Len(chat_history) < MaxChat
    /\ probe.ok \/ reply = CHOOSE r \in SessionReplies : TRUE
    /\ LET ai_available == is_model_available(probe).available
           document_context == get_context_for_ai(document_processor)
           ai == answer_question(conversation_history, user_question,
                                 document_context, reply)
           answer ==
               IF ai_available THEN ai.answer
               ELSE simple_answer_question(SimpleQA(document_processor.document_text),
                                           user_question)
       IN  IF user_question = ""
           THEN /\ last_run' = [kind |-> "ask", question |-> user_question,
                                ai_available |-> ai_available, calls |-> << >>]
                /\ UNCHANGED << conversation_history, chat_history >>
           ELSE /\ conversation_history' =
                       IF ai_available THEN ai.conversation_history
                       ELSE conversation_history
                /\ chat_history' =
                       append_chat(chat_history, user_question, answer, ai_available)
                /\ last_run' =
                       [kind |-> "ask", question |-> user_question,
                        ai_available |-> ai_available,
                        calls |-> IF ai_available THEN ai.calls ELSE << >>]
    /\ UNCHANGED << processed_data, document_processor, sample_question,
                    temp_files, PDF_AVAILABLE, unit_args, unit_ret >>

\* handle_ai_qa_chat with a click of Clear Chat History, the button shown
\* while the chat log is not empty
ClearChatHistory ==
    /\ chat_page_shown(processed_data)
    /\ chat_history # << >>
    /\ chat_history' = << >>
    /\ conversation_history' = clear_history(conversation_history)
    /\ last_run' = [kind |-> "clear", turns |-> Len(chat_history),
                    remembered |-> Len(conversation_history)]
    /\ UNCHANGED << processed_data, document_processor, sample_question,
                    temp_files, PDF_AVAILABLE, unit_args, unit_ret >>

\* handle_ai_qa_chat with a click of the i-th sample question
ClickSample(i) ==
    /\ chat_page_shown(processed_data)
    /\ sample_question' = sample_questions[i]
    /\ last_run' = [kind |-> "sample"]
    /\ UNCHANGED << processed_data, document_processor, conversation_history,
                    chat_history, temp_files, PDF_AVAILABLE, unit_args, unit_ret >>

Next ==
    \/ ViewPage
    \/ \E f \in SessionFiles : UploadFile(f)
    \/ \E f \in SessionFiles, unlinked \in BOOLEAN : ProcessDocument(f, unlinked)
    \/ \E q \in SessionQuestions, probe \in Probes, reply \in SessionReplies :
           AskQuestion(q, probe, reply)
    \/ ClearChatHistory
    \/ \E i \in 1..Min({ MaxSamples, Len(sample_questions) }) : ClickSample(i)

Spec == Init /\ [][Next]_vars

-----------------------------------------------------------------------------
(* The session's claims.                                                   *)

\* C7: a run in which Clear Chat History is clicked leaves the chat log and
\* the wrapper's conversation_history empty and leaves processed_data and the
\* session's document processor as they were.
C7_ClearEmptiesBoth ==
    [][last_run'.kind = "clear" =>
           /\ chat_history' = << >>
           /\ conversation_history' = << >>
           /\ processed_data' = processed_data
           /\ document_processor' = document_processor]_vars

\* a click of Clear Chat History has emptied a chat log and a
\* conversation_history that held turns, with a document processed
C7_Witness ==
    /\ last_run.kind = "clear"
    /\ last_run.turns > 0
    /\ last_run.remembered > 0
    /\ chat_history = << >>
    /\ conversation_history = << >>
    /\ processed_data # NONE
    /\ document_processor.financial_metrics # << >>

\* the upload of the session with the given name
FileNamed(name) == CHOOSE f \in SessionFiles : f.name = name

\* what a session that has processed nothing before gets from the upload
FirstUpload(uploaded_file) ==
    process_document(NewDocumentProcessor, uploaded_file.content,
                     validate_file(uploaded_file).file_type, PDF_AVAILABLE)

\* C8: after a run that processed an upload with success, the result, the
\* processor (its text, tables, statements and metrics) and the context for
\* the model are those a session without any earlier document gets from the
\* same upload: nothing of the previous document is left.
C8_ReuploadReplaces ==
    (last_run.kind = "process" /\ last_run.success) =>
        LET first == FirstUpload(FileNamed(last_run.uploaded_file)) IN
        /\ processed_data = first.result
        /\ document_processor = first.self
        /\ get_context_for_ai(document_processor) = get_context_for_ai(first.self)

\* a document has been processed with success over another one's result
C8_Witness ==
    /\ last_run.kind = "process"
    /\ last_run.success
    /\ last_run.previous # NONE
    /\ last_run.previous # processed_data

\* C9: a run with a question and a click of Ask Question puts one entry
\* {question, answer, ai_powered} after the entries of the chat log, which
\* stay as they are; a run of any other kind than that and a click of Clear
\* Chat History leaves the chat log as it is; the chat log gets shorter only
\* in a run with a click of Clear Chat History.
C9_ChatAppendOnly ==
    [][/\ (last_run'.kind = "ask" /\ last_run'.question # "") =>
              /\ Len(chat_history') = Len(chat_history) + 1
              /\ SubSeq(chat_history', 1, Len(chat_history)) = chat_history
              /\ DOMAIN chat_history'[Len(chat_history')]
                     = { "question", "answer", "ai_powered" }
              /\ chat_history'[Len(chat_history')].question = last_run'.question
              /\ chat_history'[Len(chat_history')].ai_powered = last_run'.ai_available
       /\ (last_run'.kind = "ask" /\ last_run'.question = "") =>
              chat_history' = chat_history
       /\ last_run'.kind \notin { "ask", "clear" } => chat_history' = chat_history
       /\ Len(chat_history') < Len(chat_history) => last_run'.kind = "clear"
      ]_vars

\* a question has been answered into a chat log that held another turn
C9_Witness ==
    /\ last_run.kind = "ask"
    /\ last_run.question # ""
    /\ Len(chat_history) = 2
    /\ chat_history[1] # chat_history[2]

\* the calls of ollama.chat that failed, among the calls of a run
FailedCalls(calls) == { i \in DOMAIN calls : ~calls[i].ok }

\* C10: when the call of the model fails in answer_question, the answer
\* starts with the error prefix, conversation_history gets that answer as one
\* more entry and the chat log gets it as one more entry, the run ends as any
\* other, and the model is called that one time only, the keyword engine not
\* at all.
C10_ModelFailureCaught ==
    [][(last_run'.kind = "ask" /\ FailedCalls(last_run'.calls) # {}) =>
           LET shown == chat_history'[Len(chat_history')] IN
           /\ Len(chat_history') = Len(chat_history) + 1
           /\ SubSeq(chat_history', 1, Len(chat_history)) = chat_history
           /\ shown.question = last_run'.question
           /\ shown.ai_powered
           /\ StartsAt(ERROR_PREFIX, shown.answer, 1)
           /\ conversation_history' =
                  Append(conversation_history,
                         [question |-> last_run'.question, answer |-> shown.answer])
           /\ Len(last_run'.calls) = 1
           /\ shown.answer #
                  simple_answer_question(SimpleQA(document_processor.document_text),
                                         last_run'.question)
      ]_vars

\* a question has been asked with the model available and the call has failed
C10_Witness ==
    /\ last_run.kind = "ask"
    /\ last_run.ai_available
    /\ FailedCalls(last_run.calls) # {}
    /\ chat_history # << >>
    /\ StartsAt(ERROR_PREFIX, chat_history[Len(chat_history)].answer, 1)

\* C12: a run with a click of Process Document writes one temporary file, at
\* a path where no file of an earlier run is, processes the upload written
\* there, and tries to delete that file whether the processing succeeded or
\* not: a deletion that works leaves the files on disk as they were before
\* the run, one that fails leaves that one file more and changes neither the
\* outcome nor the session (the result and the processor are those of the
\* upload on success and the previous ones on failure, the chat log and
\* conversation_history stay); a run of any other kind touches no temporary
\* file.
C12_TempFileSingleUse ==
    [][/\ last_run'.kind = "process" =>
              LET temp_path == last_run'.temp_path
                  first == FreshlyProcessed[FileNamed(last_run'.uploaded_file),
                                            PDF_AVAILABLE] IN
              /\ temp_path.temp_dir \notin temp_files
              /\ temp_path.name = last_run'.uploaded_file
              /\ temp_files' = IF last_run'.unlinked
                               THEN temp_files
                               ELSE temp_files \cup { temp_path.temp_dir }
              /\ last_run'.success = first.result.success
              /\ processed_data' =
                     IF first.result.success THEN first.result ELSE processed_data
              /\ document_processor' =
                     IF first.result.success THEN first.self ELSE document_processor
              /\ chat_history' = chat_history
              /\ conversation_history' = conversation_history
              /\ sample_question' = sample_question
       /\ last_run'.kind # "process" => temp_files' = temp_files
      ]_vars

\* with the file of an earlier run still on disk, whose deletion had failed,
\* a document has been processed without success and its own temporary file
\* deleted
C12_Witness ==
    /\ last_run.kind = "process"
    /\ ~last_run.success
    /\ last_run.unlinked
    /\ temp_files # { }
    /\ last_run.temp_path.temp_dir \notin temp_files
    /\ last_run.previous # NONE

\* the file is over the size limit or its name has no supported extension
Rejected(uploaded_file) ==
    \/ uploaded_file.size > 50 * MiB
    \/ lower(file_extension(uploaded_file.name)) \notin { "pdf", "xlsx", "xls", "xlsm" }

\* C15: a run with an upload that is over the size limit or of an unsupported
\* type reports the reason of the rejection and does nothing else: the
\* temporary files, the stored result and processor, the chat log and
\* conversation_history are as before; and no run processes such a file, so
\* neither save_temp_file nor the extractor is called for it.
C15_RejectedNotProcessed ==
    [][/\ ( /\ last_run'.kind = "upload"
            /\ Rejected(FileNamed(last_run'.uploaded_file)) ) =>
              /\ ~last_run'.validation_result.valid
              /\ last_run'.validation_result.error =
                     IF FileNamed(last_run'.uploaded_file).size > 50 * MiB
                     THEN TOO_LARGE ELSE UNSUPPORTED_FORMAT
              /\ temp_files' = temp_files
              /\ processed_data' = processed_data
              /\ document_processor' = document_processor
              /\ chat_history' = chat_history
              /\ conversation_history' = conversation_history
       /\ last_run'.kind = "process" =>
              ~Rejected(FileNamed(last_run'.uploaded_file))
      ]_vars

\* a file of an unsupported type has been rejected in a session that holds a
\* processed document and a chat log
C15_Witness ==
    /\ last_run.kind = "upload"
    /\ last_run.uploaded_file = "notes.txt"
    /\ last_run.validation_result = [valid |-> FALSE, error |-> UNSUPPORTED_FORMAT]
    /\ processed_data # NONE
    /\ chat_history # << >>

\* the stored result and the stored processor are those of one upload of the
\* session, processed with success, or both are as the session starts
SameDocument ==
    \/ processed_data = NONE /\ document_processor = NewDocumentProcessor
    \/ \E f \in { g \in SessionFiles : ~Rejected(g) } :
           /\ FreshlyProcessed[f, PDF_AVAILABLE].result.success
           /\ processed_data = FreshlyProcessed[f, PDF_AVAILABLE].result
           /\ document_processor = FreshlyProcessed[f, PDF_AVAILABLE].self

\* C16: a run that processes an upload without success leaves the stored
\* result and the stored processor as they were; a run that processes one
\* with success stores the result and the processor of that upload; no other
\* run changes either; so from the start on both describe the same document,
\* the last one processed with success, or both are in their initial state.
C16_ResultAndProcessorPaired ==
    /\ SameDocument
    /\ [][/\ (last_run'.kind = "process" /\ ~last_run'.success) =>
                 /\ processed_data' = processed_data
                 /\ document_processor' = document_processor
          /\ (last_run'.kind = "process" /\ last_run'.success) =>
                 LET first == FreshlyProcessed[FileNamed(last_run'.uploaded_file),
                                               PDF_AVAILABLE] IN
                 /\ processed_data' = first.result
                 /\ document_processor' = first.self
          /\ last_run'.kind # "process" =>
                 /\ processed_data' = processed_data
                 /\ document_processor' = document_processor
         ]_vars
    /\ []SameDocument

\* over a document processed with success, another upload has been processed
\* without success, and the result and the processor of the first are kept
C16_Witness ==
    /\ last_run.kind = "process"
    /\ ~last_run.success
    /\ last_run.previous # NONE
    /\ processed_data = last_run.previous
    /\ document_processor.document_text # ""
    /\ last_run.uploaded_file = "scan.pdf"

\* the turns of the chat log that the model wrapper answered, as the pairs
\* conversation_history keeps
IsAiPowered(turn) == turn.ai_powered

AiTurns(history) ==
    LET ai == SelectSeq(history, IsAiPowered)
    IN  [i \in 1..Len(ai) |-> [question |-> ai[i].question, answer |-> ai[i].answer]]

\* conversation_history holds the chat log's turns of the wrapper, in order
HistoriesAgree == conversation_history = AiTurns(chat_history)

\* C17: conversation_history is always the sequence of the (question, answer)
\* pairs of the chat log's turns with ai_powered true, in their order.  A run
\* that answers a question through the wrapper adds one pair to it, on the
\* override (no call of the model), on the model's reply and on the caught
\* error alike; a run that answers through the keyword engine adds none; a
\* click of Clear Chat History empties both; no other run changes either.
C17_HistoriesAgree ==
    /\ []HistoriesAgree
    /\ [][/\ (last_run'.kind = "ask" /\ last_run'.question # "") =>
                 /\ Len(chat_history') = Len(chat_history) + 1
                 /\ conversation_history' =
                        IF last_run'.ai_available
                        THEN Append(conversation_history,
                                    [question |-> last_run'.question,
                                     answer |-> chat_history'[Len(chat_history')].answer])
                        ELSE conversation_history
                 /\ (~last_run'.ai_available) => last_run'.calls = << >>
          /\ last_run'.kind = "clear" =>
                 chat_history' = << >> /\ conversation_history' = << >>
          /\ ( \/ last_run'.kind \notin { "ask", "clear" }
               \/ last_run'.kind = "ask" /\ last_run'.question = "" ) =>
                 /\ chat_history' = chat_history
                 /\ conversation_history' = conversation_history
         ]_vars

\* the chat log holds a turn answered by the keyword engine and, after it, a
\* turn answered by the override without a call of the model, and
\* conversation_history holds the second one only
C17_Witness ==
    /\ last_run.kind = "ask"
    /\ last_run.ai_available
    /\ last_run.calls = << >>
    /\ Len(chat_history) = 2
    /\ ~chat_history[1].ai_powered
    /\ chat_history[2].ai_powered
    /\ conversation_history =
           << [question |-> chat_history[2].question,
               answer |-> chat_history[2].answer] >>

\* a chat log with turns belongs to a session with a processed document
ChatNeedsDocument == chat_history # << >> => processed_data # NONE

\* C18: whenever the chat log is not empty, processed_data is not None: a
\* question is answered and logged only in a session that holds a result,
\* and a result, once stored, is never replaced by None, whatever run comes.
C18_ChatImpliesDocument ==
    /\ []ChatNeedsDocument
    /\ [][/\ processed_data # NONE => processed_data' # NONE
          /\ last_run'.kind \in { "ask", "clear", "sample" } => processed_data # NONE
          /\ Len(chat_history') > Len(chat_history) => processed_data # NONE
         ]_vars

\* with turns in the chat log, an upload has been processed without success
\* and the session still holds the result of the earlier document
C18_Witness ==
    /\ chat_history # << >>
    /\ last_run.kind = "process"
    /\ ~last_run.success
    /\ processed_data # NONE
    /\ processed_data = last_run.previous

=============================================================================
